---- MODULE Spec2Model ----
(***************************************************************************)
(* Model of cmd/daemon/session.go (Session: Connect, Run, Close and the    *)
(* two event handlers) and of vorbis/decoder.go (Decoder: Read,            *)
(* SetPositionMs, Close) of go-librespot.                                  *)
(*                                                                         *)
(* Strings that the code inspects with strings.HasPrefix are sequences of  *)
(* chunks; the chunks are prefix-free as character strings, so a chunk-    *)
(* wise prefix test agrees with the character-wise one.                    *)
(***************************************************************************)
EXTENDS Integers, Sequences, FiniteSets, TLC

(* ---------------------------------------------------------------- bounds *)
\* number of events the backend pushes during one behaviour
MaxEvents == 2
\* number of threads outside Run that call Close
MaxCallers == 2
\* number of Close calls each of these threads makes
MaxCloseCalls == 2
\* number of threads that call the Decoder
MaxDecThreads == 2
\* number of Decoder calls made during one behaviour
MaxDecOps == 3
\* number of pages the input yields during one behaviour
MaxPages == 2
\* largest number of samples one page decodes to
MaxPageSamples == 2
\* largest len(p) passed to Read
MaxReadLen == 2

(* ------------------------------------------------------------- constants *)
\* capacity of s.stop: make(chan struct{}, 1)
StopCap == 1

DeviceId == "device-0"

ExtCallers == 1..MaxCallers
\* caller 0 is the Run loop itself (the logout handler)
RunCaller == 0
Callers == {RunCaller} \cup ExtCallers

(* ------------------------------------------------------------- strings   *)
HasPrefix(s, p) == Len(s) >= Len(p) /\ SubSeq(s, 1, Len(p)) = p

PrefixConnections == <<"hm://", "pusher/v1/connections/">>
PrefixConnectState == <<"hm://", "connect-state/v1/">>
PrefixVolume == <<"hm://", "connect-state/v1/", "connect/", "volume">>
PrefixLogout == <<"hm://", "connect-state/v1/", "connect/", "logout">>
PrefixCluster == <<"hm://", "connect-state/v1/", "cluster">>

ConnIdHeader == "Spotify-Connection-Id"

\* Go map lookup: a missing key yields the zero value ""
MapGet(h, k) == IF k \in DOMAIN h THEN h[k] ELSE ""

NoHeaders == [k \in {} |-> ""]
HeaderSets ==
    {NoHeaders} \cup { [k \in {ConnIdHeader} |-> v] : v \in {"abc123", "def456"} }

Uris ==
    { PrefixConnections \o <<"x">>,
      PrefixVolume,
      PrefixLogout,
      PrefixLogout \o <<"x">>,
      PrefixCluster,
      PrefixConnectState \o <<"x">>,
      <<"hm://", "x">> }

Messages ==
    { [uri |-> u, headers |-> h] : u \in Uris, h \in HeaderSets }

\* headers matter to the handler only on a connections message
PushedMessages ==
    { m \in Messages : HasPrefix(m.uri, PrefixConnections) \/ m.headers = NoHeaders }

PacketTypes == {"ProductInfo", "Other"}
Payloads == {"validXml", "invalidXml"}
Packets == [type : PacketTypes, payload : Payloads]

CredentialVariants == {"UserPass", "Blob", "Unknown"}

VARIABLES
    creds,        \* dynamic type of the value passed to Connect
    connPc,       \* position of Connect
    connErr,      \* error Connect returned ("nil" when none)
    calls,        \* stage calls Connect made, in order, with their outcome
    authCalls,    \* authentication methods Connect invoked
    stopMade,     \* s.stop has been made
    stop,         \* number of signals buffered in s.stop
    ap,           \* s.ap: "nil", "open", "closed"
    login5,       \* s.login5: "nil", "set", "loggedIn"
    sp,           \* s.sp: "nil", "set"
    dealer,       \* s.dealer: "nil", "open", "closed"
    spotConnId,   \* s.spotConnId
    apRecv,       \* packets pending on the Accesspoint stream
    msgRecv,      \* messages pending on the Dealer stream
    pushed,       \* number of events the backend pushed so far
    dropped,      \* number of pushed events that found no subscriber
    lost,         \* ProductInfo packets and connections messages among them,
                  \* pushed once Accesspoint and Dealer were constructed
    arrival,      \* sources of the pending events, in the order they arrived
    runPc,        \* position of Run
    lastEvent,    \* the event Run handled last
    lastErr,      \* the error its handler returned
    handledCount, \* number of events Run handled
    afterLogout,  \* number of events Run handled after a logout handler returned
    logoutDone,   \* number of logout handlers that returned
    warnings,     \* handler errors Run logged as warnings
    puts,         \* PutConnectState calls issued, in order
    seenConnIds,  \* non-empty connection ids delivered by handled messages
    closePc,      \* position of each caller inside Close
    closeStarted, \* Close calls started, per caller
    closeDone     \* Close calls returned, per caller

vars == <<creds, connPc, connErr, calls, authCalls, stopMade, stop, ap, login5,
          sp, dealer, spotConnId, apRecv, msgRecv, pushed, dropped, lost,
          arrival, runPc,
          lastEvent, lastErr, handledCount, afterLogout, logoutDone, warnings,
          puts, seenConnIds, closePc, closeStarted, closeDone>>

connVars == <<creds, connPc, connErr, calls, authCalls, stopMade, login5, sp>>
runHist == <<lastEvent, lastErr, handledCount, afterLogout, logoutDone,
             warnings, puts, seenConnIds>>
closeVars == <<closePc, closeStarted, closeDone>>
envVars == <<apRecv, msgRecv, pushed, dropped, lost, arrival>>

NoEvent == [kind |-> "none", ev |-> "none"]

(* ------------------------------------------------------------- Decoder   *)
VARIABLES
    dBuf,         \* d.buf: decoded samples not yet handed to a caller
    dClosed,      \* d.closed
    dStopClosed,  \* d.stopChan has been closed
    dMu,          \* the thread that holds the Decoder's mutex, 0 when free
    dPc,          \* position of each thread inside its Decoder call
    dLen,         \* len(p) of each thread's Read
    dN,           \* n of each thread's Read
    dRet,         \* what each thread's last call returned
    dOut,         \* the samples Read copied to callers' buffers, in order
    dDecoded,     \* number of samples decoded so far
    dPages,       \* number of pages decoded so far
    dCleanups,    \* number of runs of decoderStateCleanup
    dChanCloses,  \* number of close(d.stopChan) executed
    dCloseRets,   \* number of Close calls that returned
    dSeeks,       \* number of SetPositionMs calls that took the mutex
    dClosedUse,   \* number of input seeks made on a closed decoder
    dOps,         \* number of Decoder calls started
    dDuringRead   \* per thread: its Close was called while a Read was in progress

decVars == <<dBuf, dClosed, dStopClosed, dMu, dPc, dLen, dN, dRet, dOut,
             dDecoded, dPages, dCleanups, dChanCloses, dCloseRets, dSeeks,
             dClosedUse, dOps, dDuringRead>>

DecThreads == 1..MaxDecThreads

\* d.gain, applied to every decoded sample (line 324)
Gain == 2

NoRet == [op |-> "none", len |-> 0, n |-> 0, err |-> "nil", bufLeft |-> 0]

\* the Decoder as New returns it (lines 80-107)
DecoderNew ==
    /\ dBuf = <<>>
    /\ dClosed = FALSE
    /\ dStopClosed = FALSE
    /\ dMu = 0
    /\ dPc = [t \in DecThreads |-> "idle"]
    /\ dLen = [t \in DecThreads |-> 0]
    /\ dN = [t \in DecThreads |-> 0]
    /\ dRet = [t \in DecThreads |-> NoRet]
    /\ dOut = <<>>
    /\ dDecoded = 0
    /\ dPages = 0
    /\ dCleanups = 0
    /\ dChanCloses = 0
    /\ dCloseRets = 0
    /\ dSeeks = 0
    /\ dClosedUse = 0
    /\ dOps = 0
    /\ dDuringRead = [t \in DecThreads |-> FALSE]

Init ==
    /\ creds = "none"
    /\ connPc = "idle"
    /\ connErr = "nil"
    /\ calls = <<>>
    /\ authCalls = {}
    /\ stopMade = FALSE
    /\ stop = 0
    /\ ap = "nil"
    /\ login5 = "nil"
    /\ sp = "nil"
    /\ dealer = "nil"
    /\ spotConnId = ""
    /\ apRecv = <<>>
    /\ msgRecv = <<>>
    /\ pushed = 0
    /\ dropped = 0
    /\ lost = 0
    /\ arrival = <<>>
    /\ runPc = "notStarted"
    /\ lastEvent = NoEvent
    /\ lastErr = "nil"
    /\ handledCount = 0
    /\ afterLogout = 0
    /\ logoutDone = 0
    /\ warnings = 0
    /\ puts = <<>>
    /\ seenConnIds = {}
    /\ closePc = [c \in Callers |-> "idle"]
    /\ closeStarted = [c \in Callers |-> 0]
    /\ closeDone = [c \in Callers |-> 0]
    /\ DecoderNew

(* ------------------------------------------------------------- Connect   *)
\* variant: the error of a stage is recorded but Connect goes on
ConnectStepNoReturn(stage, ok, next) ==
    /\ calls' = Append(calls, [stage |-> stage, ok |-> ok])
    /\ connPc' = next
    /\ connErr' = IF ok THEN connErr ELSE stage

\* lines 125-127 and the like: if err != nil { return fmt.Errorf(...) }
ConnectStep(stage, ok, next) ==
    /\ calls' = Append(calls, [stage |-> stage, ok |-> ok])
    /\ connPc' = IF ok THEN next ELSE "returned"
    /\ connErr' = IF ok THEN connErr ELSE stage

\* lines 118-121: make the stop channel, init login5
ConnectBegin ==
    /\ connPc = "idle"
    /\ \E v \in CredentialVariants : creds' = v
    /\ stopMade' = TRUE
    /\ stop' = 0
    /\ login5' = "set"
    /\ connPc' = "GetAccesspoint"
    /\ UNCHANGED <<connErr, calls, authCalls, ap, sp, dealer, spotConnId>>
    /\ UNCHANGED <<envVars, runPc, runHist, closeVars>>
    /\ UNCHANGED decVars

ConnectGetAccesspoint ==
    /\ connPc = "GetAccesspoint"
    /\ \E ok \in BOOLEAN : ConnectStep("GetAccesspoint", ok, "NewAccesspoint")
    /\ UNCHANGED <<creds, authCalls, stopMade, stop, ap, login5, sp, dealer, spotConnId>>
    /\ UNCHANGED <<envVars, runPc, runHist, closeVars>>
    /\ UNCHANGED decVars

ConnectNewAccesspoint ==
    /\ connPc = "NewAccesspoint"
    /\ \E ok \in BOOLEAN :
        /\ ConnectStep("NewAccesspoint", ok, "Authenticate")
        /\ ap' = IF ok THEN "open" ELSE "nil"
    /\ UNCHANGED <<creds, authCalls, stopMade, stop, login5, sp, dealer, spotConnId>>
    /\ UNCHANGED <<envVars, runPc, runHist, closeVars>>
    /\ UNCHANGED decVars

\* lines 135-146: the type switch on the credentials
ConnectAuthenticate ==
    /\ connPc = "Authenticate"
    /\ \/ /\ creds = "UserPass"
          /\ authCalls' = authCalls \cup {"ConnectUserPass"}
          /\ \E ok \in BOOLEAN : ConnectStep("Authenticate", ok, "Login5")
       \/ /\ creds = "Blob"
          /\ authCalls' = authCalls \cup {"ConnectBlob"}
          /\ \E ok \in BOOLEAN : ConnectStep("Authenticate", ok, "Login5")
       \/ /\ creds \notin {"UserPass", "Blob"}
          /\ connPc' = "panicked"
          /\ UNCHANGED <<authCalls, calls, connErr>>
    /\ UNCHANGED <<creds, stopMade, stop, ap, login5, sp, dealer, spotConnId>>
    /\ UNCHANGED <<envVars, runPc, runHist, closeVars>>
    /\ UNCHANGED decVars

ConnectLogin5 ==
    /\ connPc = "Login5"
    /\ \E ok \in BOOLEAN :
        /\ ConnectStep("Login5", ok, "GetSpclient")
        /\ login5' = IF ok THEN "loggedIn" ELSE login5
    /\ UNCHANGED <<creds, authCalls, stopMade, stop, ap, sp, dealer, spotConnId>>
    /\ UNCHANGED <<envVars, runPc, runHist, closeVars>>
    /\ UNCHANGED decVars

ConnectGetSpclient ==
    /\ connPc = "GetSpclient"
    /\ \E ok \in BOOLEAN : ConnectStep("GetSpclient", ok, "NewSpclient")
    /\ UNCHANGED <<creds, authCalls, stopMade, stop, ap, login5, sp, dealer, spotConnId>>
    /\ UNCHANGED <<envVars, runPc, runHist, closeVars>>
    /\ UNCHANGED decVars

ConnectNewSpclient ==
    /\ connPc = "NewSpclient"
    /\ \E ok \in BOOLEAN :
        /\ ConnectStep("NewSpclient", ok, "GetDealer")
        /\ sp' = IF ok THEN "set" ELSE "nil"
    /\ UNCHANGED <<creds, authCalls, stopMade, stop, ap, login5, dealer, spotConnId>>
    /\ UNCHANGED <<envVars, runPc, runHist, closeVars>>
    /\ UNCHANGED decVars

ConnectGetDealer ==
    /\ connPc = "GetDealer"
    /\ \E ok \in BOOLEAN : ConnectStep("GetDealer", ok, "NewDealer")
    /\ UNCHANGED <<creds, authCalls, stopMade, stop, ap, login5, sp, dealer, spotConnId>>
    /\ UNCHANGED <<envVars, runPc, runHist, closeVars>>
    /\ UNCHANGED decVars

\* lines 173-178: the last stage; on success Connect returns nil
ConnectNewDealer ==
    /\ connPc = "NewDealer"
    /\ \E ok \in BOOLEAN :
        /\ ConnectStep("NewDealer", ok, "returned")
        /\ dealer' = IF ok THEN "open" ELSE "nil"
    /\ UNCHANGED <<creds, authCalls, stopMade, stop, ap, login5, sp, spotConnId>>
    /\ UNCHANGED <<envVars, runPc, runHist, closeVars>>
    /\ UNCHANGED decVars

Connected == connPc = "returned" /\ connErr = "nil"

(* ------------------------------------------------------------- backend   *)
\* Run's two subscriptions (lines 188-189) exist once Run has started
Subscribed == runPc # "notStarted"

Authenticated ==
    \E i \in 1..Len(calls) : calls[i].stage = "Authenticate" /\ calls[i].ok

\* the prefixes Run passes to ReceiveMessage (line 189)
MatchesSubscription(uri) ==
    HasPrefix(uri, PrefixConnections) \/ HasPrefix(uri, PrefixConnectState)

\* a packet pushed over the open transport: delivered to the subscriber of
\* exactly its type, dropped when there is none
PushPacket ==
    /\ ap = "open"
    /\ Authenticated
    /\ pushed < MaxEvents
    /\ pushed' = pushed + 1
    /\ \E pkt \in Packets :
        IF Subscribed /\ pkt.type = "ProductInfo"
        THEN /\ apRecv' = Append(apRecv, pkt)
             /\ arrival' = Append(arrival, "pkt")
             /\ UNCHANGED <<dropped, lost>>
        ELSE /\ dropped' = dropped + 1
             /\ lost' = IF pkt.type = "ProductInfo" /\ dealer # "nil"
                        THEN lost + 1 ELSE lost
             /\ UNCHANGED <<apRecv, arrival>>
    /\ UNCHANGED <<msgRecv, connVars, stop, ap, dealer, spotConnId>>
    /\ UNCHANGED <<runPc, runHist, closeVars>>
    /\ UNCHANGED decVars

\* a message pushed over the open Dealer connection: delivered to the
\* subscription when one of its prefixes matches, dropped otherwise
PushMessage ==
    /\ dealer = "open"
    /\ pushed < MaxEvents
    /\ pushed' = pushed + 1
    /\ \E m \in PushedMessages :
        IF Subscribed /\ MatchesSubscription(m.uri)
        THEN /\ msgRecv' = Append(msgRecv, m)
             /\ arrival' = Append(arrival, "msg")
             /\ UNCHANGED <<dropped, lost>>
        ELSE /\ dropped' = dropped + 1
             /\ lost' = IF HasPrefix(m.uri, PrefixConnections) /\ ap # "nil"
                        THEN lost + 1 ELSE lost
             /\ UNCHANGED <<msgRecv, arrival>>
    /\ UNCHANGED <<apRecv, connVars, stop, ap, dealer, spotConnId>>
    /\ UNCHANGED <<runPc, runHist, closeVars>>
    /\ UNCHANGED decVars

\* the pending sources once the oldest pending event of source k is taken
Taken(k) ==
    LET i == CHOOSE i \in 1..Len(arrival) :
                 arrival[i] = k /\ \A j \in 1..(i - 1) : arrival[j] # k
    IN SubSeq(arrival, 1, i - 1) \o SubSeq(arrival, i + 1, Len(arrival))

(* ------------------------------------------------------------- handlers  *)
\* xml.Unmarshal(payload, &prod)
XmlUnmarshalOk(payload) == payload = "validXml"

\* handleAccesspointPacket: the error it returns
handleAccesspointPacket(pktType, payload) ==
    IF pktType = "ProductInfo"
    THEN IF XmlUnmarshalOk(payload) THEN "nil" ELSE "failed umarshalling ProductInfo"
    ELSE "nil"

\* variant: the cluster hook logs the device out
DealerRouteClusterLogout(uri) ==
    IF HasPrefix(uri, PrefixConnections) THEN "connections"
    ELSE IF HasPrefix(uri, PrefixVolume) THEN "volume"
    ELSE IF HasPrefix(uri, PrefixLogout) THEN "logout"
    ELSE IF HasPrefix(uri, PrefixCluster) THEN "logout"
    ELSE "none"

\* the if / else-if chain of handleDealerMessage
DealerRoute(uri) ==
    IF HasPrefix(uri, PrefixConnections) THEN "connections"
    ELSE IF HasPrefix(uri, PrefixVolume) THEN "volume"
    ELSE IF HasPrefix(uri, PrefixLogout) THEN "logout"
    ELSE IF HasPrefix(uri, PrefixCluster) THEN "cluster"
    ELSE "none"

\* variant: the device announces itself as active
InitialPutStateActive(connId) ==
    [connId |-> connId, reason |-> "NEW_DEVICE", isActive |-> TRUE,
     deviceId |-> DeviceId]

\* the request of the initial state put, as far as the backend tells calls apart
InitialPutState(connId) ==
    [connId |-> connId, reason |-> "NEW_DEVICE", isActive |-> FALSE,
     deviceId |-> DeviceId]

\* the connection id the connections branch stores (line 50)
ReceivedConnId(msg) == MapGet(msg.headers, ConnIdHeader)

\* variant: Run gives up on the first handler error
RunAfterHandlerReturnOnError(err) == IF err # "nil" THEN "returned" ELSE "select"

\* Run, lines 196-198 and 200-202: a handler's error is logged, the loop goes on
RunAfterHandler(err) == "select"

Warned(err) == IF err # "nil" THEN warnings + 1 ELSE warnings

Count(n) == IF logoutDone > 0 THEN n + 1 ELSE n

(* ------------------------------------------------------------- Run       *)
RunStart ==
    /\ Connected
    /\ runPc = "notStarted"
    /\ runPc' = "select"
    /\ UNCHANGED <<connVars, stop, ap, dealer, spotConnId, envVars, runHist, closeVars>>
    /\ UNCHANGED decVars

\* variant: the signal is received but the loop goes on
RunStopKeepsLooping ==
    /\ runPc = "select"
    /\ stop > 0
    /\ stop' = stop - 1
    /\ runPc' = "select"
    /\ UNCHANGED <<connVars, ap, dealer, spotConnId, envVars, runHist, closeVars>>
    /\ UNCHANGED decVars

\* case <-s.stop: return
RunStop ==
    /\ runPc = "select"
    /\ stop > 0
    /\ stop' = stop - 1
    /\ runPc' = "returned"
    /\ UNCHANGED <<connVars, ap, dealer, spotConnId, envVars, runHist, closeVars>>
    /\ UNCHANGED decVars

\* variant: the newest pending packet is taken
RunHandlePacketNewestFirst ==
    /\ runPc = "select"
    /\ apRecv # <<>>
    /\ LET pkt == apRecv[Len(apRecv)]
           err == handleAccesspointPacket(pkt.type, pkt.payload)
       IN /\ apRecv' = SubSeq(apRecv, 1, Len(apRecv) - 1)
          /\ lastEvent' = [kind |-> "pkt", ev |-> pkt]
          /\ lastErr' = err
          /\ warnings' = Warned(err)
          /\ runPc' = RunAfterHandler(err)
    /\ arrival' = Taken("pkt")
    /\ handledCount' = handledCount + 1
    /\ afterLogout' = Count(afterLogout)
    /\ UNCHANGED <<logoutDone, puts, seenConnIds>>
    /\ UNCHANGED <<connVars, stop, ap, dealer, spotConnId, msgRecv, pushed, dropped,
                   lost, closeVars>>
    /\ UNCHANGED decVars

\* case pkt := <-apRecv
RunHandlePacket ==
    /\ runPc = "select"
    /\ apRecv # <<>>
    /\ LET pkt == Head(apRecv)
           err == handleAccesspointPacket(pkt.type, pkt.payload)
       IN /\ apRecv' = Tail(apRecv)
          /\ lastEvent' = [kind |-> "pkt", ev |-> pkt]
          /\ lastErr' = err
          /\ warnings' = Warned(err)
          /\ runPc' = RunAfterHandler(err)
    /\ arrival' = Taken("pkt")
    /\ handledCount' = handledCount + 1
    /\ afterLogout' = Count(afterLogout)
    /\ UNCHANGED <<logoutDone, puts, seenConnIds>>
    /\ UNCHANGED <<connVars, stop, ap, dealer, spotConnId, msgRecv, pushed, dropped,
                   lost, closeVars>>
    /\ UNCHANGED decVars

\* case msg := <-msgRecv, every branch but logout
RunHandleMessage ==
    /\ runPc = "select"
    /\ msgRecv # <<>>
    /\ LET msg == Head(msgRecv)
           route == DealerRoute(msg.uri)
       IN /\ route # "logout"
          /\ msgRecv' = Tail(msgRecv)
          /\ lastEvent' = [kind |-> "msg", ev |-> msg]
          /\ IF route = "connections"
             THEN /\ spotConnId' = ReceivedConnId(msg)
                  /\ puts' = Append(puts, InitialPutState(spotConnId'))
                  /\ seenConnIds' = IF ConnIdHeader \in DOMAIN msg.headers
                                       /\ msg.headers[ConnIdHeader] # ""
                                    THEN seenConnIds \cup {msg.headers[ConnIdHeader]}
                                    ELSE seenConnIds
                  /\ \E putOk \in BOOLEAN :
                       /\ lastErr' = IF putOk THEN "nil" ELSE "failed initial state put"
                       /\ warnings' = Warned(lastErr')
                       /\ runPc' = RunAfterHandler(lastErr')
             ELSE /\ lastErr' = "nil"
                  /\ UNCHANGED warnings
                  /\ runPc' = RunAfterHandler("nil")
                  /\ UNCHANGED <<spotConnId, puts, seenConnIds>>
    /\ handledCount' = handledCount + 1
    /\ afterLogout' = Count(afterLogout)
    /\ arrival' = Taken("msg")
    /\ UNCHANGED logoutDone
    /\ UNCHANGED <<connVars, stop, ap, dealer, apRecv, pushed, dropped, lost, closeVars>>
    /\ UNCHANGED decVars

\* case msg := <-msgRecv, the logout branch: the handler enters s.Close()
RunHandleLogout ==
    /\ runPc = "select"
    /\ msgRecv # <<>>
    /\ LET msg == Head(msgRecv)
       IN /\ DealerRoute(msg.uri) = "logout"
          /\ msgRecv' = Tail(msgRecv)
          /\ lastEvent' = [kind |-> "msg", ev |-> msg]
    /\ runPc' = "handler"
    /\ closePc' = [closePc EXCEPT ![RunCaller] = "send"]
    /\ closeStarted' = [closeStarted EXCEPT ![RunCaller] = @ + 1]
    /\ handledCount' = handledCount + 1
    /\ afterLogout' = Count(afterLogout)
    /\ UNCHANGED <<lastErr, logoutDone, warnings, puts, seenConnIds, closeDone>>
    /\ arrival' = Taken("msg")
    /\ UNCHANGED <<connVars, stop, ap, dealer, spotConnId, apRecv, pushed, dropped, lost>>
    /\ UNCHANGED decVars

(* ------------------------------------------------------------- Close     *)
\* a thread other than Run calls s.Close()
CloseCall(c) ==
    /\ Connected
    /\ closePc[c] = "idle"
    /\ closeStarted[c] < MaxCloseCalls
    /\ closePc' = [closePc EXCEPT ![c] = "send"]
    /\ closeStarted' = [closeStarted EXCEPT ![c] = @ + 1]
    /\ UNCHANGED <<closeDone, connVars, stop, ap, dealer, spotConnId, envVars,
                   runPc, runHist>>
    /\ UNCHANGED decVars

\* line 182: s.stop <- struct{}{}, a send that waits for room in the buffer
CloseSend(c) ==
    /\ closePc[c] = "send"
    /\ stop < StopCap
    /\ stop' = stop + 1
    /\ closePc' = [closePc EXCEPT ![c] = "dealer"]
    /\ UNCHANGED <<closeStarted, closeDone, connVars, ap, dealer, spotConnId,
                   envVars, runPc, runHist>>
    /\ UNCHANGED decVars

\* line 183: s.dealer.Close()
CloseDealer(c) ==
    /\ closePc[c] = "dealer"
    /\ dealer' = "closed"
    /\ closePc' = [closePc EXCEPT ![c] = "ap"]
    /\ UNCHANGED <<closeStarted, closeDone, connVars, stop, ap, spotConnId,
                   envVars, runPc, runHist>>
    /\ UNCHANGED decVars

\* line 184: s.ap.Close(); Close returns, and with it the logout handler
CloseAp(c) ==
    /\ closePc[c] = "ap"
    /\ ap' = "closed"
    /\ closePc' = [closePc EXCEPT ![c] = "idle"]
    /\ closeDone' = [closeDone EXCEPT ![c] = @ + 1]
    /\ IF c = RunCaller
       THEN /\ runPc' = RunAfterHandler("nil")
            /\ lastErr' = "nil"
            /\ logoutDone' = logoutDone + 1
       ELSE UNCHANGED <<runPc, lastErr, logoutDone>>
    /\ UNCHANGED <<lastEvent, handledCount, afterLogout, warnings, puts, seenConnIds>>
    /\ UNCHANGED <<closeStarted, connVars, stop, dealer, spotConnId, envVars>>
    /\ UNCHANGED decVars

Next ==
    \/ ConnectBegin
    \/ ConnectGetAccesspoint
    \/ ConnectNewAccesspoint
    \/ ConnectAuthenticate
    \/ ConnectLogin5
    \/ ConnectGetSpclient
    \/ ConnectNewSpclient
    \/ ConnectGetDealer
    \/ ConnectNewDealer
    \/ PushPacket
    \/ PushMessage
    \/ RunStart
    \/ RunStop
    \/ RunHandlePacket
    \/ RunHandleMessage
    \/ RunHandleLogout
    \/ \E c \in ExtCallers : CloseCall(c)
    \/ \E c \in Callers : CloseSend(c)
    \/ \E c \in Callers : CloseDealer(c)
    \/ \E c \in Callers : CloseAp(c)

Spec == Init /\ [][Next]_vars

\* Go's select chooses at random among its ready cases, so the stop case is
\* taken when it is ready again and again; the thread inside the logout
\* handler's Close keeps running while it can.
LiveSpec ==
    /\ Init /\ [][Next]_vars
    /\ SF_vars(RunStop)
    /\ WF_vars(CloseSend(RunCaller))
    /\ WF_vars(CloseDealer(RunCaller))
    /\ WF_vars(CloseAp(RunCaller))

(* ------------------------------------------------------------- Decoder   *)
\* an unrecovered panic or a crash ends the process
Alive == \A t \in DecThreads : dPc[t] \notin {"panicked", "crashed"}

Min(a, b) == IF a <= b THEN a ELSE b

\* copied := copy(p[n:], d.buf)
Copied(len, n, buf) == Min(len - n, Len(buf))

\* variant: the buffer is not advanced past the copied samples
BufAfterCopyKept(buf, copied) == buf

\* d.buf = d.buf[copied:]
BufAfterCopy(buf, copied) == SubSeq(buf, copied + 1, Len(buf))

\* what one call of readNextPage can come to: a page that decodes to k
\* samples, with or without the end-of-stream flag, the end of the input
\* (readChunk returns io.EOF), or another error of the input
PageResults ==
    { [kind |-> "page", k |-> k, eos |-> e] :
          k \in 0..MaxPageSamples, e \in BOOLEAN }
    \cup { [kind |-> "eof", k |-> 0, eos |-> FALSE],
           [kind |-> "ioerr", k |-> 0, eos |-> FALSE] }

CanResult(r) == r.kind = "page" => dPages < MaxPages

\* lines 320-328: the samples of the page, each multiplied by the gain
NewSamples(k) == [i \in 1..k |-> (dDecoded + i) * Gain]

\* readNextPage: d.buf after the call
readNextPageBuf(buf, r) ==
    IF r.kind = "page" THEN buf \o NewSamples(r.k) ELSE buf

\* readNextPage: the error it returns
readNextPageErr(r) ==
    IF r.kind = "page" THEN (IF r.eos THEN "EOF" ELSE "nil")
    ELSE IF r.kind = "eof" THEN "EOF"
    ELSE "ioerr"

\* a call returns: the deferred Unlock runs
Returns(t, op, n, err) ==
    /\ dRet' = [dRet EXCEPT ![t] = [op |-> op, len |-> dLen[t], n |-> n,
                                     err |-> err, bufLeft |-> Len(dBuf')]]
    /\ dPc' = [dPc EXCEPT ![t] = "idle"]
    /\ dMu' = 0

DecReadCall(t) ==
    /\ Alive
    /\ dPc[t] = "idle"
    /\ dOps < MaxDecOps
    /\ dOps' = dOps + 1
    /\ \E len \in 0..MaxReadLen : dLen' = [dLen EXCEPT ![t] = len]
    /\ dN' = [dN EXCEPT ![t] = 0]
    /\ dPc' = [dPc EXCEPT ![t] = "readLock"]
    /\ UNCHANGED <<dBuf, dClosed, dStopClosed, dMu, dRet, dOut, dDecoded,
                   dPages, dCleanups, dChanCloses, dCloseRets, dSeeks, dClosedUse,
                   dDuringRead>>
    /\ UNCHANGED vars

\* line 240: d.Lock()
DecReadLock(t) ==
    /\ Alive
    /\ dPc[t] = "readLock"
    /\ dMu = 0
    /\ dMu' = t
    /\ dPc' = [dPc EXCEPT ![t] = "readBody"]
    /\ UNCHANGED <<dBuf, dClosed, dStopClosed, dLen, dN, dRet, dOut, dDecoded,
                   dPages, dCleanups, dChanCloses, dCloseRets, dSeeks, dClosedUse, dOps,
                   dDuringRead>>
    /\ UNCHANGED vars

\* lines 242-244: Read on a closed decoder
DecReadClosed(t) ==
    /\ Alive
    /\ dPc[t] = "readBody"
    /\ dClosed
    /\ UNCHANGED dBuf
    /\ Returns(t, "Read", 0, "closed")
    /\ UNCHANGED <<dClosed, dStopClosed, dLen, dN, dOut, dDecoded, dPages,
                   dCleanups, dChanCloses, dCloseRets, dSeeks, dClosedUse, dOps,
                   dDuringRead>>
    /\ UNCHANGED vars

\* lines 247-261: the loop test and one iteration of the loop
DecReadIter(t) ==
    /\ Alive
    /\ dPc[t] = "readBody"
    /\ ~dClosed
    /\ IF dN[t] >= dLen[t]
       THEN /\ UNCHANGED <<dBuf, dN, dOut, dDecoded, dPages>>
            /\ Returns(t, "Read", dN[t], "nil")
       ELSE LET copied == Copied(dLen[t], dN[t], dBuf)
                n1 == dN[t] + copied
                buf1 == BufAfterCopy(dBuf, copied)
            IN /\ dOut' = dOut \o SubSeq(dBuf, 1, copied)
               /\ dN' = [dN EXCEPT ![t] = n1]
               /\ \E r \in PageResults :
                    /\ CanResult(r)
                    /\ dBuf' = readNextPageBuf(buf1, r)
                    /\ dDecoded' = IF r.kind = "page" THEN dDecoded + r.k ELSE dDecoded
                    /\ dPages' = IF r.kind = "page" THEN dPages + 1 ELSE dPages
                    /\ IF readNextPageErr(r) # "nil"
                       THEN Returns(t, "Read", n1, readNextPageErr(r))
                       ELSE UNCHANGED <<dRet, dPc, dMu>>
    /\ UNCHANGED <<dClosed, dStopClosed, dLen, dCleanups, dChanCloses, dCloseRets, dSeeks,
                   dClosedUse, dOps, dDuringRead>>
    /\ UNCHANGED vars

DecSeekCall(t) ==
    /\ Alive
    /\ dPc[t] = "idle"
    /\ dOps < MaxDecOps
    /\ dOps' = dOps + 1
    /\ dPc' = [dPc EXCEPT ![t] = "seekLock"]
    /\ UNCHANGED <<dBuf, dClosed, dStopClosed, dMu, dLen, dN, dRet, dOut,
                   dDecoded, dPages, dCleanups, dChanCloses, dCloseRets, dSeeks,
                   dClosedUse, dDuringRead>>
    /\ UNCHANGED vars

\* line 342: d.Lock()
DecSeekLock(t) ==
    /\ Alive
    /\ dPc[t] = "seekLock"
    /\ dMu = 0
    /\ dMu' = t
    /\ dSeeks' = dSeeks + 1
    /\ dPc' = [dPc EXCEPT ![t] = "seekBody"]
    /\ UNCHANGED <<dBuf, dClosed, dStopClosed, dLen, dN, dRet, dOut, dDecoded,
                   dPages, dCleanups, dChanCloses, dCloseRets, dClosedUse, dOps,
                   dDuringRead>>
    /\ UNCHANGED vars

\* lines 345-353: seek the input, read a chunk.  There is no test of
\* d.closed: on a closed decoder the seek is made all the same and readChunk
\* then works on the freed sync state, which may crash or go on.
DecSeekBody(t) ==
    /\ Alive
    /\ dPc[t] = "seekBody"
    /\ dClosedUse' = IF dClosed THEN dClosedUse + 1 ELSE dClosedUse
    /\ \E o \in {"seekErr", "chunkErr", "ok", "crash"} :
        /\ o = "crash" => dClosed
        /\ CASE o = "seekErr" ->
                  /\ UNCHANGED dBuf
                  /\ Returns(t, "SetPositionMs", 0, "failed seeking input")
             [] o = "chunkErr" ->
                  /\ UNCHANGED dBuf
                  /\ Returns(t, "SetPositionMs", 0, "failed reading chunk")
             [] o = "ok" ->
                  /\ dPc' = [dPc EXCEPT ![t] = "seekPages"]
                  /\ UNCHANGED <<dBuf, dRet, dMu>>
             [] o = "crash" ->
                  /\ dPc' = [dPc EXCEPT ![t] = "crashed"]
                  /\ UNCHANGED <<dBuf, dRet, dMu>>
    /\ UNCHANGED <<dClosed, dStopClosed, dLen, dN, dOut, dDecoded, dPages,
                   dCleanups, dChanCloses, dCloseRets, dSeeks, dOps, dDuringRead>>
    /\ UNCHANGED vars

\* lines 355-367: one iteration of the page loop; whether the position is
\* reached depends on the granule position of the page
DecSeekPage(t) ==
    /\ Alive
    /\ dPc[t] = "seekPages"
    /\ \E r \in PageResults, reached \in BOOLEAN :
        /\ CanResult(r)
        /\ dDecoded' = IF r.kind = "page" THEN dDecoded + r.k ELSE dDecoded
        /\ dPages' = IF r.kind = "page" THEN dPages + 1 ELSE dPages
        /\ IF readNextPageErr(r) # "nil"
           THEN /\ dBuf' = readNextPageBuf(dBuf, r)
                /\ Returns(t, "SetPositionMs", 0, "failed reading page")
           ELSE IF reached
                THEN /\ dBuf' = <<>>
                     /\ Returns(t, "SetPositionMs", 0, "nil")
                ELSE /\ dBuf' = readNextPageBuf(dBuf, r)
                     /\ UNCHANGED <<dRet, dPc, dMu>>
    /\ UNCHANGED <<dClosed, dStopClosed, dLen, dN, dOut, dCleanups,
                   dChanCloses, dCloseRets, dSeeks, dClosedUse, dOps, dDuringRead>>
    /\ UNCHANGED vars

DecCloseCall(t) ==
    /\ Alive
    /\ dPc[t] = "idle"
    /\ dOps < MaxDecOps
    /\ dOps' = dOps + 1
    /\ dPc' = [dPc EXCEPT ![t] = "closeCheck"]
    /\ dDuringRead' = [dDuringRead EXCEPT
                          ![t] = \E u \in DecThreads : dPc[u] = "readBody"]
    /\ UNCHANGED <<dBuf, dClosed, dStopClosed, dMu, dLen, dN, dRet, dOut,
                   dDecoded, dPages, dCleanups, dChanCloses, dCloseRets, dSeeks,
                   dClosedUse>>
    /\ UNCHANGED vars

\* lines 155-162: a closed channel is ready to receive from
stopRequested == dStopClosed

\* line 117: if !d.stopRequested()
DecCloseCheck(t) ==
    /\ Alive
    /\ dPc[t] = "closeCheck"
    /\ dPc' = [dPc EXCEPT ![t] = IF stopRequested THEN "closeLock" ELSE "closeChan"]
    /\ UNCHANGED <<dBuf, dClosed, dStopClosed, dMu, dLen, dN, dRet, dOut,
                   dDecoded, dPages, dCleanups, dChanCloses, dCloseRets, dSeeks,
                   dClosedUse, dOps, dDuringRead>>
    /\ UNCHANGED vars

\* line 118: close(d.stopChan); closing a closed channel panics
DecCloseChan(t) ==
    /\ Alive
    /\ dPc[t] = "closeChan"
    /\ dChanCloses' = dChanCloses + 1
    /\ dStopClosed' = TRUE
    /\ dPc' = [dPc EXCEPT ![t] = IF dStopClosed THEN "panicked" ELSE "closeLock"]
    /\ UNCHANGED <<dBuf, dClosed, dMu, dLen, dN, dRet, dOut, dDecoded, dPages,
                   dCleanups, dCloseRets, dSeeks, dClosedUse, dOps, dDuringRead>>
    /\ UNCHANGED vars

\* line 120: d.Lock()
DecCloseLock(t) ==
    /\ Alive
    /\ dPc[t] = "closeLock"
    /\ dMu = 0
    /\ dMu' = t
    /\ dPc' = [dPc EXCEPT ![t] = "closeBody"]
    /\ UNCHANGED <<dBuf, dClosed, dStopClosed, dLen, dN, dRet, dOut, dDecoded,
                   dPages, dCleanups, dChanCloses, dCloseRets, dSeeks, dClosedUse, dOps,
                   dDuringRead>>
    /\ UNCHANGED vars

\* variant: the cleanup runs whether or not the decoder is closed already
DecCloseBodyNoTest(t) ==
    /\ Alive
    /\ dPc[t] = "closeBody"
    /\ dClosed' = TRUE
    /\ dCleanups' = dCleanups + 1
    /\ UNCHANGED dBuf
    /\ Returns(t, "Close", 0, "nil")
    /\ dCloseRets' = dCloseRets + 1
    /\ UNCHANGED <<dStopClosed, dLen, dN, dOut, dDecoded, dPages, dChanCloses,
                   dSeeks, dClosedUse, dOps, dDuringRead>>
    /\ UNCHANGED vars

\* lines 122-127: test d.closed, set it, run decoderStateCleanup
DecCloseBody(t) ==
    /\ Alive
    /\ dPc[t] = "closeBody"
    /\ dClosed' = TRUE
    /\ dCleanups' = IF dClosed THEN dCleanups ELSE dCleanups + 1
    /\ UNCHANGED dBuf
    /\ Returns(t, "Close", 0, "nil")
    /\ dCloseRets' = dCloseRets + 1
    /\ UNCHANGED <<dStopClosed, dLen, dN, dOut, dDecoded, dPages, dChanCloses,
                   dSeeks, dClosedUse, dOps, dDuringRead>>
    /\ UNCHANGED vars

DecNext ==
    \/ \E t \in DecThreads : DecReadCall(t)
    \/ \E t \in DecThreads : DecReadLock(t)
    \/ \E t \in DecThreads : DecReadClosed(t)
    \/ \E t \in DecThreads : DecReadIter(t)
    \/ \E t \in DecThreads : DecSeekCall(t)
    \/ \E t \in DecThreads : DecSeekLock(t)
    \/ \E t \in DecThreads : DecSeekBody(t)
    \/ \E t \in DecThreads : DecSeekPage(t)
    \/ \E t \in DecThreads : DecCloseCall(t)
    \/ \E t \in DecThreads : DecCloseCheck(t)
    \/ \E t \in DecThreads : DecCloseChan(t)
    \/ \E t \in DecThreads : DecCloseLock(t)
    \/ \E t \in DecThreads : DecCloseBody(t)

DecSpec == Init /\ [][DecNext]_decVars

(* ------------------------------------------------------------- claims    *)
\* a step in which Run takes the head of the Dealer stream and handles it
TakesMessage ==
    /\ msgRecv # <<>>
    /\ msgRecv' = Tail(msgRecv)
    /\ handledCount' = handledCount + 1

\* a step in which Run takes the head of the Accesspoint stream and handles it
TakesPacket ==
    /\ apRecv # <<>>
    /\ apRecv' = Tail(apRecv)
    /\ handledCount' = handledCount + 1

\* C1: handling a message whose Uri starts with hm://pusher/v1/connections/
\* stores its Spotify-Connection-Id header value as the ConnectionId and issues
\* exactly one PutConnectState, carrying that id, reason NEW_DEVICE,
\* IsActive = false and the configured device id.
C1_ConnectionsMessagePutsState ==
    [][ (TakesMessage /\ HasPrefix(Head(msgRecv).uri, PrefixConnections))
        => LET id == MapGet(Head(msgRecv).headers, ConnIdHeader)
           IN /\ spotConnId' = id
              /\ puts' = Append(puts, [connId |-> id, reason |-> "NEW_DEVICE",
                                       isActive |-> FALSE, deviceId |-> DeviceId])
      ]_vars

C1_Witness ==
    /\ lastEvent.kind = "msg"
    /\ HasPrefix(lastEvent.ev.uri, PrefixConnections)
    /\ spotConnId = "abc123"
    /\ Len(puts) = 1
    /\ puts[1].connId = "abc123"

\* C2: once the handler of a logout message has returned, Run handles no
\* further Accesspoint packet or Dealer message.
C2_NothingHandledAfterLogout == afterLogout = 0

\* C3: after a successful Connect, a call of Close that follows a Close that
\* has returned never waits at its send of the shutdown signal.
C3_SecondCloseNeverBlocks ==
    \A c \in ExtCallers :
        (closePc[c] = "send" /\ \E d \in Callers : closeDone[d] >= 1)
            => stop < StopCap

\* C4: the Close called by Run's logout handler is never stuck at its send of
\* the shutdown signal, which only Run itself could receive.
C4_HandlerCloseNeverStuck ==
    ~(runPc = "handler" /\ closePc[RunCaller] = "send" /\ stop = StopCap)

\* the Uris of the claim C5: the reserved volume and cluster prefixes and the
\* Uris that match no known prefix
InertUri(uri) ==
    \/ HasPrefix(uri, PrefixVolume)
    \/ HasPrefix(uri, PrefixCluster)
    \/ /\ ~HasPrefix(uri, PrefixConnections)
       /\ ~HasPrefix(uri, PrefixVolume)
       /\ ~HasPrefix(uri, PrefixLogout)
       /\ ~HasPrefix(uri, PrefixCluster)

\* C5: handling a message whose Uri matches none of the known prefixes, or
\* the volume or cluster prefix, leaves the ConnectionId and the status of
\* Dealer and Accesspoint unchanged and issues no PutConnectState and no Close.
C5_InertMessageChangesNothing ==
    [][ (TakesMessage /\ InertUri(Head(msgRecv).uri))
        => /\ UNCHANGED <<spotConnId, dealer, ap, stop>>
           /\ UNCHANGED <<puts, closePc, closeStarted>>
           /\ runPc' = "select"
      ]_vars

C5_Witness ==
    /\ lastEvent.kind = "msg"
    /\ HasPrefix(lastEvent.ev.uri, PrefixCluster)
    /\ handledCount = 2
    /\ spotConnId = "abc123"
    /\ Len(puts) = 1
    /\ runPc = "select"

\* C6: Connect invokes only ConnectUserPass for a username/password
\* credential, only ConnectBlob for a stored blob, and takes one of these two
\* paths for every credential value.
C6_ExclusiveDispatch ==
    /\ creds = "UserPass" => "ConnectBlob" \notin authCalls
    /\ creds = "Blob" => "ConnectUserPass" \notin authCalls
    /\ (connPc = "panicked" \/ Len(calls) >= 3)
          => authCalls \in {{"ConnectUserPass"}, {"ConnectBlob"}}
    /\ connPc # "panicked"

StageOrder ==
    <<"GetAccesspoint", "NewAccesspoint", "Authenticate", "Login5",
      "GetSpclient", "NewSpclient", "GetDealer", "NewDealer">>

\* C7: Connect runs its eight stages in the fixed order, runs no stage after
\* a failed one, returns the error of exactly the failed stage, and returns
\* success only when all eight stages succeeded.
C7_StagesInOrderFailFast ==
    /\ Len(calls) <= Len(StageOrder)
    /\ \A i \in 1..Len(calls) : calls[i].stage = StageOrder[i]
    /\ \A i \in 1..(Len(calls) - 1) : calls[i].ok
    /\ (calls # <<>> /\ ~calls[Len(calls)].ok)
          => connPc = "returned" /\ connErr = calls[Len(calls)].stage
    /\ (connPc = "returned" /\ connErr # "nil")
          => calls # <<>> /\ ~calls[Len(calls)].ok
    /\ (connPc = "returned" /\ connErr = "nil")
          => Len(calls) = Len(StageOrder) /\ \A i \in 1..Len(calls) : calls[i].ok

C7_Witness ==
    /\ connPc = "returned"
    /\ connErr = "GetSpclient"
    /\ Len(calls) = 5
    /\ sp = "nil"
    /\ dealer = "nil"

\* C8: a handler that returns an error leaves Run waiting at its select with
\* the shutdown signal and both streams untouched, and Run returns only by
\* receiving the shutdown signal.
C8_HandlerErrorKeepsRunLooping ==
    [][ /\ ((TakesPacket \/ TakesMessage) /\ lastErr' # "nil" /\ warnings' # warnings)
           => /\ runPc' = "select"
              /\ UNCHANGED <<stop, ap, dealer>>
        /\ (runPc # "returned" /\ runPc' = "returned")
           => runPc = "select" /\ stop > 0 /\ stop' = stop - 1
      ]_vars

C8_Witness ==
    /\ warnings = 1
    /\ handledCount = 2
    /\ lastErr = "nil"
    /\ lastEvent.kind = "msg"
    /\ runPc = "select"

\* C9: no call of Close waits at its send of the shutdown signal, so each
\* call goes on to both teardown calls, and the Accesspoint is never closed
\* before the Dealer.
C9_EveryCloseReachesTeardown ==
    /\ \A c \in Callers : closePc[c] = "send" => stop < StopCap
    /\ ap = "closed" => dealer = "closed"

\* C10: every PutConnectState call carries a non-empty connection id that a
\* previously received connections message delivered.
C10_PutsCarryObservedId ==
    \A i \in 1..Len(puts) :
        puts[i].connId # "" /\ puts[i].connId \in seenConnIds

\* C11: a Connect that has returned an error leaves no component built by an
\* earlier stage set and open on the Session: no authenticated Accesspoint
\* transport, no Spclient, no Dealer connection.
C11_FailedConnectLeavesNothingOpen ==
    (connPc = "returned" /\ connErr # "nil")
        => /\ ~(ap = "open" /\ Authenticated)
           /\ sp # "set"
           /\ dealer # "open"

\* the logout handler waits at the send of its Close with the slot full
HandlerStuck ==
    runPc = "handler" /\ closePc[RunCaller] = "send" /\ stop = StopCap

\* C12: once the shutdown signal is in the channel while Run is active, Run
\* eventually returns unless its handler in progress never returns, whatever
\* events are pending; the step in which Run returns tears down neither the
\* Dealer nor the Accesspoint.
C12_ShutdownSignalEndsRun ==
    /\ (stop > 0 /\ runPc \in {"select", "handler"})
          ~> (runPc = "returned" \/ HandlerStuck)
    /\ [][ (runPc # "returned" /\ runPc' = "returned")
              => UNCHANGED <<ap, dealer>> ]_vars

C12_Witness ==
    /\ runPc = "returned"
    /\ stop = 0
    /\ closeDone[1] = 1
    /\ closeStarted[RunCaller] = 0
    /\ apRecv # <<>>
    /\ msgRecv # <<>>

\* C13 as stated: the event Run takes is the oldest pending event of both
\* sources together.
C13_HandledInArrivalOrder ==
    [][ /\ TakesPacket => Head(arrival) = "pkt"
        /\ TakesMessage => Head(arrival) = "msg"
      ]_vars

\* C13 as amended: Run takes at most one event per step and none while a
\* handler is in progress, and the event it takes is the oldest pending event
\* of its own source; the other source's stream is left as it is.
C13_OneAtATimeInSourceOrder ==
    [][ /\ handledCount' \in {handledCount, handledCount + 1}
        /\ runPc = "handler" => handledCount' = handledCount
        /\ handledCount' = handledCount + 1
             => \/ /\ apRecv # <<>>
                   /\ lastEvent'.kind = "pkt"
                   /\ lastEvent'.ev = Head(apRecv)
                   /\ apRecv' = Tail(apRecv)
                   /\ msgRecv' = msgRecv
                \/ /\ msgRecv # <<>>
                   /\ lastEvent'.kind = "msg"
                   /\ lastEvent'.ev = Head(msgRecv)
                   /\ msgRecv' = Tail(msgRecv)
                   /\ apRecv' = apRecv
      ]_vars

C13_Witness ==
    /\ handledCount = 1
    /\ lastEvent.kind = "msg"
    /\ arrival = <<"pkt">>
    /\ apRecv # <<>>
    /\ pushed = 2
    /\ runPc = "select"

\* C14: no ProductInfo packet and no connections message pushed after Connect
\* has constructed the Accesspoint and the Dealer is dropped for lack of a
\* subscriber.
C14_NoEventOfInterestLost == lost = 0

\* C15: the cleanup has run exactly once when the decoder is closed and not
\* at all before, however many Close calls returned; a closed decoder stays
\* closed; a Read on a closed decoder returns 0 samples with an error and
\* leaves the decoder state unchanged.
C15_CloseOnceReadFails ==
    /\ [](dCleanups = IF dClosed THEN 1 ELSE 0)
    /\ [][ /\ dClosed => dClosed'
           /\ \A t \in DecThreads :
                (dClosed /\ dPc[t] = "readBody" /\ dPc'[t] # "readBody")
                   => /\ dRet'[t].op = "Read"
                      /\ dRet'[t].n = 0
                      /\ dRet'[t].err # "nil"
                      /\ UNCHANGED <<dBuf, dOut, dDecoded, dPages, dClosed,
                                     dStopClosed, dCleanups>>
         ]_decVars

C15_Witness ==
    /\ dClosed
    /\ dCleanups = 1
    /\ dCloseRets = 2
    /\ \E t \in DecThreads :
          dPc[t] = "idle" /\ dRet[t].op = "Read" /\ dRet[t].err = "closed"

\* C16: SetPositionMs never seeks the input of a closed decoder, and so never
\* comes to use the released state.
C16_NoSeekOnClosedDecoder ==
    /\ dClosedUse = 0
    /\ \A t \in DecThreads : dPc[t] # "crashed"

\* C17: in every interleaving of Close calls the stop channel is closed at
\* most once, no Close panics, and the cleanup runs at most once.
C17_StopChanClosedOnce ==
    /\ dChanCloses <= 1
    /\ \A t \in DecThreads : dPc[t] # "panicked"
    /\ dCleanups <= 1

\* C18: with no seek so far, the samples copied to the callers' buffers are
\* the first samples of the decoded stream, in order; a Read returns
\* n <= len(p), and n = len(p) when its error is nil.
C18_ReadsFormPrefix ==
    /\ dSeeks = 0 =>
          /\ Len(dOut) <= dDecoded
          /\ \A i \in 1..Len(dOut) : dOut[i] = i * Gain
    /\ \A t \in DecThreads :
          dRet[t].op = "Read"
             => /\ dRet[t].n <= dRet[t].len
                /\ dRet[t].err = "nil" => dRet[t].n = dRet[t].len

C18_Witness ==
    /\ dSeeks = 0
    /\ Len(dOut) = 3
    /\ Len(dBuf) = 1
    /\ dCloseRets = 0
    /\ \E t \in DecThreads :
          dPc[t] = "idle" /\ dRet[t].op = "Read" /\ dRet[t].n = 2
             /\ dRet[t].err = "nil"

\* C19: when Read returns io.EOF, no decoded sample is left in d.buf.
C19_EofOnlyWhenDrained ==
    \A t \in DecThreads :
        (dRet[t].op = "Read" /\ dRet[t].err = "EOF") => dRet[t].bufLeft = 0

\* C20: at most one thread is inside the body of Read, SetPositionMs or the
\* locked part of Close, and a Close called while a Read was in progress does
\* not end in a panic instead of completing.
C20_MutuallyExclusive ==
    /\ Cardinality({ t \in DecThreads :
                       dPc[t] \in {"readBody", "seekBody", "seekPages",
                                   "closeBody"} }) <= 1
    /\ \A t \in DecThreads : dDuringRead[t] => dPc[t] # "panicked"

====
